---- MODULE Spec2Model ----
(***************************************************************************)
(* State-machine model of finance_app (src/app.py): the SQLite store       *)
(* (users, categories, expenses, budget), the auth helpers, the month      *)
(* aggregation of the dashboard and the Streamlit sessions that drive the  *)
(* store.                                                                  *)
(*                                                                         *)
(* Tables are sets of rows (records).  Text that the code strips is the    *)
(* sequence of its Unicode code points, so that str.strip() is computed.   *)
(* Amounts and limits are REAL columns; the model uses whole numbers,      *)
(* which float() represents exactly.  A date string 'YYYY-MM-DD' is the    *)
(* triple <<year, month, day>>.                                            *)
(***************************************************************************)
EXTENDS Integers, Sequences, FiniteSets, TLC

VARIABLES
    users,       \* table users: rows [username, password]
    categories,  \* table categories: rows [username, category]
    expenses,    \* table expenses: rows [id, username, date, category, amount, description]
    seq,         \* sqlite_sequence entry of expenses (AUTOINCREMENT high-water mark)
    budget,      \* table budget: rows [username, category, monthly_limit]
    registered,  \* history: the <<username, password>> pairs for which signup_user returned True
    auth_user,   \* per browser session: st.session_state.auth_user
    options,     \* per browser session: the ids offered by the "Select Expense ID" box
    del_call,    \* per calling thread: its delete_category call, statement by statement
    run,         \* per browser session: its script run, database call by database call
    last         \* the most recent statement or call: [op, args, ret]

vars ==
    <<users, categories, expenses, seq, budget, registered, auth_user, options,
      del_call, run, last>>

store == <<users, categories, expenses, seq, budget, registered>>

----------------------------------------------------------------------------
(* Bounds of the model *)

MaxSeqAuth == 2
MaxSeqLedger == 3
MaxSeqDelete == 2
MaxSeqPick == 2
MaxSeqDash == 2
MaxSeqSessions == 2

----------------------------------------------------------------------------
(* Text values, as code points *)

Food == <<70, 111, 111, 100>>
Transport == <<84, 114, 97, 110, 115, 112, 111, 114, 116>>
Health == <<72, 101, 97, 108, 116, 104>>
Entertainment == <<69, 110, 116, 101, 114, 116, 97, 105, 110, 109, 101, 110, 116>>
Other == <<79, 116, 104, 101, 114>>

DEFAULT_CATEGORIES == {Food, Transport, Health, Entertainment, Other}

None == "None"

\* A thread or a session that is not inside a call
Idle == [pc |-> "idle"]

Sessions == {"s1", "s2"}

\* The threads that call delete_category (no button of the UI does)
Callers == {"c1", "c2"}

\* The characters str.strip() removes when called without arguments: the code
\* points for which str.isspace() is true.
Whitespace ==
    {9, 10, 11, 12, 13, 28, 29, 30, 31, 32, 133, 160, 5760, 8232, 8233, 8239, 8287,
     12288} \cup (8192..8202)

RECURSIVE lstrip(_)
lstrip(s) ==
    IF s # <<>> /\ Head(s) \in Whitespace THEN lstrip(Tail(s)) ELSE s

RECURSIVE rstrip(_)
rstrip(s) ==
    IF s # <<>> /\ s[Len(s)] \in Whitespace
    THEN rstrip(SubSeq(s, 1, Len(s) - 1))
    ELSE s

strip(s) == rstrip(lstrip(s))

\* float(x) of a whole number in the modelled range is that number.
float(x) == x

\* hashlib.sha256(password.encode()).hexdigest(), tabulated for the passwords used.
hash_password(password) ==
    CASE password = "a" ->
           "ca978112ca1bbdcafac231b39a23dc4da786eff8147c4e72b9807785afee48bb"
      [] password = "b" ->
           "3e23e8160039594a33894f6564e1b1348bbd7a0088d42c4acb73eeaed59c009d"
      [] password = "" ->
           "e3b0c44298fc1c149afbf4c8996fb92427ae41e4649b934ca495991b7852b855"

Call(op, args, ret) == [op |-> op, args |-> args, ret |-> ret]

RECURSIVE SetMax(_)
SetMax(S) ==
    IF S = {} THEN 0
    ELSE LET x == CHOOSE y \in S : TRUE
             m == SetMax(S \ {x})
         IN IF x > m THEN x ELSE m

\* The step commits a change to a table.  A call that changes no row (a refused
\* signup, an add_category of a name that exists, a delete_expense of an id that
\* is gone, a delete_category whose guard is false) commits nothing.
Wrote ==
    <<users, categories, expenses, seq, budget>>' #
        <<users, categories, expenses, seq, budget>>

\* The delete_category calls after a step of the calling thread s (of any other
\* connection when s = None): a change the step commits falls between the
\* statements of every other call in progress.
Disturbed(s) ==
    [t \in Callers |->
        IF t # s /\ del_call[t].pc \in {"exp_counted", "bud_counted"} /\ Wrote
        THEN [del_call[t] EXCEPT !.alone = FALSE]
        ELSE del_call[t]]

----------------------------------------------------------------------------
(* init_db: four empty tables *)

Init ==
    /\ users = {}
    /\ categories = {}
    /\ expenses = {}
    /\ seq = 0
    /\ budget = {}
    /\ registered = {}
    /\ auth_user = [s \in Sessions |-> None]
    /\ options = [s \in Sessions |-> {}]
    /\ del_call = [t \in Callers |-> Idle]
    /\ run = [s \in Sessions |-> Idle]
    /\ last = Call("init_db", <<>>, None)

----------------------------------------------------------------------------
(* Auth helpers *)

\* INSERT OR REPLACE in place of INSERT: an existing row is overwritten.
UsersAfterReplace(username, password) ==
    {r \in users : r.username # username}
        \cup {[username |-> username, password |-> hash_password(password)]}

\* The users table after a signup_user call.  The INSERT raises IntegrityError on
\* a taken username (PRIMARY KEY) and the connection is closed without a commit.
UsersAfterSignup(username, password) ==
    IF \E r \in users : r.username = username
    THEN users
    ELSE users \cup {[username |-> username, password |-> hash_password(password)]}

signup_ret(username) == ~ \E r \in users : r.username = username

\* The three tables signup_user writes (and the history of its successes).
signup_effect(username, password) ==
    /\ users' = UsersAfterSignup(username, password)
    /\ categories' =
         IF signup_ret(username)
         THEN categories \cup
                {[username |-> username, category |-> cat] : cat \in DEFAULT_CATEGORIES}
         ELSE categories
    /\ registered' =
         IF signup_ret(username)
         THEN registered \cup {<<username, password>>}
         ELSE registered

signup_user(username, password) ==
    /\ signup_effect(username, password)
    /\ last' = Call("signup_user", <<username, password>>, signup_ret(username))
    /\ UNCHANGED <<expenses, seq, budget, auth_user, options, run>>
    /\ del_call' = Disturbed(None)

\* row[0] == password: the stored hash compared with the clear text.
LoginUnhashed(username, password) ==
    \E r \in users : r.username = username /\ r.password = password

login_ret(username, password) ==
    \E r \in users : r.username = username /\ r.password = hash_password(password)

login_user(username, password) ==
    /\ last' = Call("login_user", <<username, password>>, login_ret(username, password))
    /\ UNCHANGED <<store, auth_user, options, del_call, run>>

user_exists(username) == \E r \in users : r.username = username

----------------------------------------------------------------------------
(* Categories *)

\* SELECT category FROM categories WHERE username = ?  (the names, as a set;
\* the ORDER BY only fixes the order in which the UI lists them).
get_categories(username) ==
    {r.category : r \in {x \in categories : x.username = username}}

add_category_ret(username, category) ==
    /\ category # <<>>
    /\ [username |-> username, category |-> strip(category)] \notin categories

add_category(username, category) ==
    /\ categories' =
         IF add_category_ret(username, category)
         THEN categories \cup {[username |-> username, category |-> strip(category)]}
         ELSE categories
    /\ last' = Call("add_category", <<username, category>>,
                    add_category_ret(username, category))
    /\ UNCHANGED <<users, expenses, seq, budget, registered, auth_user, options, run>>
    /\ del_call' = Disturbed(None)

exp_count(username, category) ==
    Cardinality({r \in expenses : r.username = username /\ r.category = category})

bud_count(username, category) ==
    Cardinality({r \in budget : r.username = username /\ r.category = category})

\* The guard with "or" in place of "and".
DeleteGuardOr(exp, bud) == exp = 0 \/ bud = 0

\* The guard without the budget count.
DeleteGuardExpensesOnly(exp, bud) == exp = 0

\* if exp_count == 0 and bud_count == 0
delete_guard(exp, bud) == exp = 0 /\ bud = 0

\* The categories table after the DELETE (and commit) that the guard allows, for
\* the two counts the call has fetched.
CategoriesAfterDelete(username, category, exp, bud) ==
    IF delete_guard(exp, bud)
    THEN {r \in categories : ~(r.username = username /\ r.category = category)}
    ELSE categories

\* delete_category statement by statement.  The two SELECT COUNT run outside any
\* transaction and the DELETE opens its own, so the writes of other connections
\* may commit between them.
delete_category_count_expenses(s, username, category) ==
    /\ del_call[s].pc \in {"idle", "closed"}
    /\ del_call' = [del_call EXCEPT ![s] =
           [pc |-> "exp_counted", username |-> username, category |-> category,
            exp_count |-> exp_count(username, category), bud_count |-> None,
            alone |-> TRUE]]
    /\ last' = Call("delete_category.exp_count", <<username, category>>,
                    exp_count(username, category))
    /\ UNCHANGED <<store, auth_user, options, run>>

delete_category_count_budget(s) ==
    /\ del_call[s].pc = "exp_counted"
    /\ del_call' = [del_call EXCEPT ![s] =
           [del_call[s] EXCEPT
               !.pc = "bud_counted",
               !.bud_count = bud_count(del_call[s].username, del_call[s].category)]]
    /\ last' = Call("delete_category.bud_count",
                    <<del_call[s].username, del_call[s].category>>,
                    bud_count(del_call[s].username, del_call[s].category))
    /\ UNCHANGED <<store, auth_user, options, run>>

delete_category_delete(s) ==
    /\ del_call[s].pc = "bud_counted"
    /\ categories' =
         CategoriesAfterDelete(del_call[s].username, del_call[s].category,
                               del_call[s].exp_count, del_call[s].bud_count)
    /\ last' = Call("delete_category",
                    <<del_call[s].username, del_call[s].category>>, None)
    /\ UNCHANGED <<users, expenses, seq, budget, registered, auth_user, options, run>>
    /\ del_call' = [Disturbed(s) EXCEPT ![s] =
           [pc |-> "closed", username |-> del_call[s].username,
            category |-> del_call[s].category, alone |-> del_call[s].alone]]

----------------------------------------------------------------------------
(* Expenses *)

\* An id taken from the number of rows present.
CountId == Cardinality(expenses) + 1

\* INTEGER PRIMARY KEY without AUTOINCREMENT: one more than the largest id present.
RowidId == SetMax({r.id : r \in expenses}) + 1

\* INTEGER PRIMARY KEY AUTOINCREMENT: one more than the largest id ever used.
AutoincrementId == SetMax({seq} \cup {r.id : r \in expenses}) + 1

add_expense_effect(username, date_str, category, amount, description) ==
    /\ expenses' = expenses \cup
         {[id |-> AutoincrementId, username |-> username, date |-> date_str,
           category |-> category, amount |-> float(amount),
           description |-> strip(description)]}
    /\ seq' = AutoincrementId

add_expense(username, date_str, category, amount, description) ==
    /\ add_expense_effect(username, date_str, category, amount, description)
    /\ last' = Call("add_expense",
                    <<username, date_str, category, amount, description>>, None)
    /\ UNCHANGED <<users, categories, budget, registered, auth_user, options, run>>
    /\ del_call' = Disturbed(None)

\* SELECT id, date, category, amount, description FROM expenses WHERE username = ?
get_expenses(username) ==
    {[id |-> r.id, date |-> r.date, category |-> r.category, amount |-> r.amount,
      description |-> r.description] : r \in {x \in expenses : x.username = username}}

ExpensesAfterDelete(expense_id) == {r \in expenses : r.id # expense_id}

delete_expense(expense_id) ==
    /\ expenses' = ExpensesAfterDelete(expense_id)
    /\ last' = Call("delete_expense", <<expense_id>>, None)
    /\ UNCHANGED <<users, categories, seq, budget, registered, auth_user, options, run>>
    /\ del_call' = Disturbed(None)

----------------------------------------------------------------------------
(* Budgets *)

\* INSERT OR IGNORE in place of INSERT OR REPLACE: an existing row is kept.
BudgetAfterIgnore(username, category, limit) ==
    IF \E r \in budget : r.username = username /\ r.category = category
    THEN budget
    ELSE budget \cup {[username |-> username, category |-> category,
                       monthly_limit |-> float(limit)]}

\* INSERT OR REPLACE: the row with the same primary key is dropped first.
BudgetAfterSet(username, category, limit) ==
    {r \in budget : ~(r.username = username /\ r.category = category)}
        \cup {[username |-> username, category |-> category,
               monthly_limit |-> float(limit)]}

set_budget(username, category, limit) ==
    /\ budget' = BudgetAfterSet(username, category, limit)
    /\ last' = Call("set_budget", <<username, category, limit>>, None)
    /\ UNCHANGED <<users, categories, expenses, seq, registered, auth_user, options, run>>
    /\ del_call' = Disturbed(None)

\* SELECT category, monthly_limit FROM budget WHERE username = ?
get_budget(username) ==
    {[category |-> r.category, monthly_limit |-> r.monthly_limit] :
        r \in {x \in budget : x.username = username}}

----------------------------------------------------------------------------
(* Helpers of the dashboard *)

\* dt.strftime('%Y-%m')
current_month_key(dt) == <<dt[1], dt[2]>>

\* The month number compared without the year.
MonthFilterIgnoringYear(df, dt) ==
    IF df = {} THEN df ELSE {r \in df : r.date[2] = dt[2]}

month_filter(df, dt) ==
    IF df = {} THEN df
    ELSE {r \in df : current_month_key(r.date) = current_month_key(dt)}

\* Series.sum() of the amount column
RECURSIVE amount_sum(_)
amount_sum(df) ==
    IF df = {} THEN 0
    ELSE LET r == CHOOSE x \in df : TRUE
         IN r.amount + amount_sum(df \ {r})

\* groupby(key)['amount'].sum(): one sum per value of the key
groupby_date_sum(df) ==
    [d \in {r.date : r \in df} |-> amount_sum({r \in df : r.date = d})]

groupby_category_sum(df) ==
    [c \in {r.category : r \in df} |-> amount_sum({r \in df : r.category = c})]

RECURSIVE series_sum(_, _)
series_sum(f, keys) ==
    IF keys = {} THEN 0
    ELSE LET k == CHOOSE x \in keys : TRUE
         IN f[k] + series_sum(f, keys \ {k})

\* Series.mean(): the sum over the number of entries, kept as a fraction
series_mean(f) ==
    [num |-> series_sum(f, DOMAIN f), den |-> Cardinality(DOMAIN f)]

\* daily_avg of the dashboard
daily_average(month_expenses) ==
    IF month_expenses # {}
    THEN series_mean(groupby_date_sum(month_expenses))
    ELSE [num |-> 0, den |-> 1]

\* pd.merge(bud_df, spent_by_cat, on='category', how='left').fillna({'amount': 0.0})
merge_budget(bud_df, spent_by_cat) ==
    {[category |-> b.category, monthly_limit |-> b.monthly_limit,
      amount |-> IF b.category \in DOMAIN spent_by_cat
                 THEN spent_by_cat[b.category] ELSE 0] : b \in bud_df}

\* amount / monthly_limit > num / den, for a positive limit and den.  For whole
\* amounts of this size the double quotient compares with 1 and with 0.8 as the
\* exact quotient does.
status_gt(row, num, den) == row.amount * den > num * row.monthly_limit

\* The second threshold tested with >=.
AlertAtEightyPercent(row) ==
    IF row.monthly_limit <= 0 THEN "none"
    ELSE IF status_gt(row, 1, 1) THEN "over"
    ELSE IF row.amount * 5 >= 4 * row.monthly_limit THEN "near"
    ELSE "none"

\* The loop body over the merged rows: "over" is st.warning, "near" is st.info.
budget_alert(row) ==
    IF row.monthly_limit <= 0 THEN "none"
    ELSE IF status_gt(row, 1, 1) THEN "over"
    ELSE IF status_gt(row, 4, 5) THEN "near"
    ELSE "none"

\* The Dashboard tab: what is shown for the frames read at the top of the script.
dashboard(exp_df, bud_df, now) ==
    IF exp_df = {}
    THEN [shown |-> FALSE, total |-> 0, daily_avg |-> [num |-> 0, den |-> 1],
          alerts |-> {}]
    ELSE LET month_expenses == month_filter(exp_df, now)
             spent_by_cat ==
                 IF month_expenses # {} THEN groupby_category_sum(month_expenses)
                 ELSE <<>>
             merged == IF bud_df # {} THEN merge_budget(bud_df, spent_by_cat) ELSE {}
         IN [shown |-> TRUE,
             total |-> IF month_expenses # {} THEN amount_sum(month_expenses) ELSE 0,
             daily_avg |-> daily_average(month_expenses),
             alerts |-> {[category |-> row.category, kind |-> budget_alert(row)] :
                           row \in {m \in merged : budget_alert(m) # "none"}}]

----------------------------------------------------------------------------
(* main() and from_finance_app(username): one script run per press of a button.
   Every database call of a run opens its own connection, so the calls of other
   sessions and connections commit between the calls of a run. *)

\* "— No categories —"
NoCategories ==
    <<8212, 32, 78, 111, 32, 99, 97, 116, 101, 103, 111, 114, 105, 101, 115, 32, 8212>>

\* options=categories if categories else ["— No categories —"]
CategoryOptions(cats) == IF cats # {} THEN cats ELSE {NoCategories}

\* "Login" on the Login tab
Login(s, username, password) ==
    /\ auth_user[s] = None
    /\ run[s].pc = "idle"
    /\ auth_user' =
         IF login_ret(username, password)
         THEN [auth_user EXCEPT ![s] = username]
         ELSE auth_user
    /\ last' = Call("login", <<s, username, password>>, login_ret(username, password))
    /\ UNCHANGED <<store, options, del_call, run>>

\* "Create Account" on the Sign Up tab, up to the answer of user_exists: "fill"
\* is st.error('Please fill both fields.'), "exists" the st.warning; otherwise the
\* run goes on to signup_user.
CreateAccount_user_exists(s, new_user, new_pass) ==
    /\ auth_user[s] = None
    /\ run[s].pc = "idle"
    /\ IF new_user = "" \/ new_pass = ""
       THEN /\ last' = Call("create_account", <<s, new_user, new_pass>>, "fill")
            /\ run' = run
       ELSE IF user_exists(new_user)
       THEN /\ last' = Call("create_account", <<s, new_user, new_pass>>, "exists")
            /\ run' = run
       ELSE /\ last' = Call("user_exists", <<new_user>>, FALSE)
            /\ run' = [run EXCEPT ![s] =
                   [pc |-> "signup", new_user |-> new_user, new_pass |-> new_pass]]
    /\ UNCHANGED <<store, auth_user, options, del_call>>

\* The signup_user call of that run: "created" is st.success('Account created!
\* ...'), "failed" is st.error('Failed to create account.').
CreateAccount_signup_user(s) ==
    /\ run[s].pc = "signup"
    /\ signup_effect(run[s].new_user, run[s].new_pass)
    /\ last' = Call("create_account", <<s, run[s].new_user, run[s].new_pass>>,
                    IF signup_ret(run[s].new_user) THEN "created" ELSE "failed")
    /\ run' = [run EXCEPT ![s] = Idle]
    /\ UNCHANGED <<expenses, seq, budget, auth_user, options>>
    /\ del_call' = Disturbed(None)

\* "Logout" in the sidebar
Logout(s) ==
    /\ auth_user[s] # None
    /\ run[s].pc = "idle"
    /\ auth_user' = [auth_user EXCEPT ![s] = None]
    /\ options' = [options EXCEPT ![s] = {}]
    /\ last' = Call("logout", <<s>>, None)
    /\ UNCHANGED <<store, del_call, run>>

\* from_finance_app(username), run at the date `now`: cat_df = get_categories(username)
script_get_categories(s, username, now) ==
    /\ run[s].pc = "idle"
    /\ run' = [run EXCEPT ![s] =
           [pc |-> "categories", username |-> username, now |-> now,
            categories |-> get_categories(username)]]
    /\ last' = Call("get_categories", <<username>>, get_categories(username))
    /\ UNCHANGED <<store, auth_user, options, del_call>>

\* exp_df = get_expenses(username)
script_get_expenses(s) ==
    /\ run[s].pc = "categories"
    /\ run' = [run EXCEPT ![s] =
           [pc |-> "expenses", username |-> run[s].username, now |-> run[s].now,
            categories |-> run[s].categories,
            exp_df |-> get_expenses(run[s].username)]]
    /\ last' = Call("get_expenses", <<run[s].username>>, get_expenses(run[s].username))
    /\ UNCHANGED <<store, auth_user, options, del_call>>

\* bud_df = get_budget(username) and the Dashboard tab, computed from the frames
\* the run holds.  The run keeps the category list for the two tabs that follow.
script_dashboard(s) ==
    /\ run[s].pc = "expenses"
    /\ run' = [run EXCEPT ![s] =
           [pc |-> "dashboard", username |-> run[s].username,
            categories |-> run[s].categories]]
    /\ last' = Call("from_finance_app", <<run[s].username, run[s].now>>,
                    [exp_df |-> run[s].exp_df,
                     bud_df |-> get_budget(run[s].username),
                     page |-> dashboard(run[s].exp_df, get_budget(run[s].username),
                                        run[s].now)])
    /\ UNCHANGED <<store, auth_user, options, del_call>>

\* "Add Expense" pressed: the category is one of the options of the box, which
\* come from the list the run read at its start.  The run goes on to the tabs
\* below.
PressAdd(s, d, category, amount, desc) ==
    /\ run[s].pc = "dashboard"
    /\ category \in CategoryOptions(run[s].categories)
    /\ add_expense_effect(run[s].username, d, category, amount, desc)
    /\ run' = [run EXCEPT ![s] = [pc |-> "pressed", username |-> run[s].username]]
    /\ last' = Call("press_add", <<s, d, category, amount, desc>>, None)
    /\ UNCHANGED <<users, categories, budget, registered, auth_user, options>>
    /\ del_call' = Disturbed(None)

\* "Save Budget" pressed: offered when the list the run read is not empty, with
\* a category of that list.  The run goes on to the tabs below.
PressSaveBudget(s, bcat, blimit) ==
    /\ run[s].pc = "dashboard"
    /\ run[s].categories # {}
    /\ bcat \in run[s].categories
    /\ budget' = BudgetAfterSet(run[s].username, bcat, blimit)
    /\ run' = [run EXCEPT ![s] = [pc |-> "pressed", username |-> run[s].username]]
    /\ last' = Call("press_save_budget", <<s, bcat, blimit>>, None)
    /\ UNCHANGED <<users, categories, expenses, seq, registered, auth_user, options>>
    /\ del_call' = Disturbed(None)

\* The end of the Budget tab, in every run: bud = get_budget(username), shown as
\* a table.  `pressed` says that a button of the two tabs above was pressed in
\* this run; a run is started by one press.
script_get_budget(s) ==
    /\ run[s].pc \in {"dashboard", "pressed"}
    /\ run' = [run EXCEPT ![s] =
           [pc |-> "budget", username |-> run[s].username,
            pressed |-> run[s].pc = "pressed"]]
    /\ last' = Call("get_budget", <<run[s].username>>, get_budget(run[s].username))
    /\ UNCHANGED <<store, auth_user, options, del_call>>

\* The Reports tab, in every run: df = get_expenses(username) and the select box
\* over df['id']
ReportsTab(s) ==
    /\ run[s].pc = "budget"
    /\ options' = [options EXCEPT ![s] = {r.id : r \in get_expenses(run[s].username)}]
    /\ run' = [run EXCEPT ![s] =
           [pc |-> "reports", username |-> run[s].username,
            pressed |-> run[s].pressed]]
    /\ last' = Call("reports", <<s>>, get_expenses(run[s].username))
    /\ UNCHANGED <<store, auth_user, del_call>>

\* "Delete Expense" pressed, with an id of the box
PressDelete(s, del_id) ==
    /\ run[s].pc = "reports"
    /\ ~run[s].pressed
    /\ del_id \in options[s]
    /\ expenses' = ExpensesAfterDelete(del_id)
    /\ run' = [run EXCEPT ![s] =
           [pc |-> "reports", username |-> run[s].username, pressed |-> TRUE]]
    /\ last' = Call("press_delete", <<s, del_id>>, None)
    /\ UNCHANGED <<users, categories, seq, budget, registered, auth_user, options>>
    /\ del_call' = Disturbed(None)

\* The Import/Export tab, which ends every run: df = get_expenses(username) for
\* the download button
script_end(s) ==
    /\ run[s].pc = "reports"
    /\ run' = [run EXCEPT ![s] = Idle]
    /\ last' = Call("script_end", <<s>>, get_expenses(run[s].username))
    /\ UNCHANGED <<store, auth_user, options, del_call>>

----------------------------------------------------------------------------
(* Inputs *)

Usernames == {"alice", "bob"}
Passwords == {"a", "b"}
NewCat == <<32, 78, 160>>
Blank == <<12>>
Empty == <<>>
Day1 == <<2024, 3, 1>>
Memo == <<11, 120, 32>>

----------------------------------------------------------------------------
(* SpecAuth: the auth helpers among the other store operations *)

NextAuth ==
    \/ \E u \in Usernames, p \in Passwords : signup_user(u, p)
    \/ \E u \in Usernames, p \in Passwords : login_user(u, p)
    \/ \E a \in {<<"alice", Empty>>, <<"alice", Blank>>, <<"", NewCat>>} :
          add_category(a[1], a[2])
    \/ delete_category_count_expenses("c1", "alice", Food)
    \/ delete_category_count_budget("c1")
    \/ delete_category_delete("c1")
    \/ seq < MaxSeqAuth /\ add_expense("alice", Day1, Food, 50, Memo)
    \/ delete_expense(1)
    \/ set_budget("alice", Food, 100)

SpecAuth == Init /\ [][NextAuth]_vars

\* C1: login_user(u, p) is True exactly when signup_user succeeded for u with a
\* password of the same hash, whatever store operations came in between; it is
\* False for a different hash and False for a username without a users row.
C1_LoginMatchesSignup ==
    last.op = "login_user" =>
        LET u == last.args[1]
            p == last.args[2]
        IN /\ \A q \in Passwords :
                <<u, q>> \in registered =>
                    last.ret = (hash_password(p) = hash_password(q))
           /\ (~ \E r \in users : r.username = u) => last.ret = FALSE

\* A login that succeeds after expenses and budgets were written since the signup.
C1_Witness ==
    /\ last.op = "login_user"
    /\ last.ret = TRUE
    /\ <<last.args[1], last.args[2]>> \in registered
    /\ expenses # {}
    /\ budget # {}

\* C2: signup_user on a taken username returns False and leaves the users table
\* and the categories table as they were.
C2_SignupTakenChangesNothing ==
    [][(last'.op = "signup_user" /\ user_exists(last'.args[1])) =>
          /\ last'.ret = FALSE
          /\ users' = users
          /\ categories' = categories]_vars

\* A refused signup with a password other than the registered one.
C2_Witness ==
    /\ last.op = "signup_user"
    /\ last.ret = FALSE
    /\ \E q \in Passwords : q # last.args[2] /\ <<last.args[1], q>> \in registered
    /\ \E r \in users : r.username = last.args[1] /\ r.password # hash_password(last.args[2])

\* C5: add_category returns False and leaves the categories table unchanged when
\* the name is empty or only whitespace, and when the owner is the empty string.
C5_BlankOrOwnerlessRejected ==
    [][(last'.op = "add_category"
          /\ (strip(last'.args[2]) = <<>> \/ last'.args[1] = "")) =>
          /\ last'.ret = FALSE
          /\ categories' = categories]_vars

----------------------------------------------------------------------------
(* SpecDelete: threads inside delete_category while other connections write the
   tables it counts *)

PaddedFood == <<9, 70, 111, 111, 100>>

NextDelete ==
    \/ signup_user("alice", "a")
    \/ add_category("alice", PaddedFood)
    \/ \E t \in Callers : delete_category_count_expenses(t, "alice", Food)
    \/ \E t \in Callers : delete_category_count_budget(t)
    \/ \E t \in Callers : delete_category_delete(t)
    \/ \E u \in Usernames : seq < MaxSeqDelete /\ add_expense(u, Day1, Food, 50, Memo)
    \/ \E i \in 1..MaxSeqDelete : delete_expense(i)
    \/ \E u \in Usernames : set_budget(u, Food, 100)

SpecDelete == Init /\ [][NextDelete]_vars

CatRow(u, c) == [username |-> u, category |-> c]

\* An expense row or a budget row of the store names (u, c).
Referenced(u, c) ==
    \/ \E r \in expenses : r.username = u /\ r.category = c
    \/ \E r \in budget : r.username = u /\ r.category = c

\* C3 as stated: delete_category(owner, name) changes nothing in categories while
\* an expense or a budget row has (username, category) = (owner, name); otherwise
\* it removes the row (owner, name) and no other row.
C3_DeleteCategoryGuarded ==
    [][last'.op = "delete_category" =>
          LET u == last'.args[1]
              c == last'.args[2]
          IN IF Referenced(u, c)
             THEN categories' = categories
             ELSE categories' = categories \ {CatRow(u, c)}]_vars

\* The step is not the DELETE of a delete_category call between whose statements
\* another connection committed a change to a table.
DeleteRanAlone ==
    \A t \in Callers :
        (del_call[t].pc = "bud_counted" /\ del_call'[t].pc = "closed")
            => del_call[t].alone

\* C3 amended: the same, for a call between whose statements no other store
\* operation committed a change to a table (operations that commit nothing may
\* run in between).
C3_DeleteCategoryGuardedAlone ==
    [][(last'.op = "delete_category" /\ DeleteRanAlone) =>
          LET u == last'.args[1]
              c == last'.args[2]
          IN IF Referenced(u, c)
             THEN categories' = categories
             ELSE categories' = categories \ {CatRow(u, c)}]_vars

\* An undisturbed call that deleted nothing because of a budget row alone.
C3_Witness ==
    /\ last.op = "delete_category"
    /\ \E t \in Callers : del_call[t].pc = "closed" /\ del_call[t].alone
    /\ CatRow(last.args[1], last.args[2]) \in categories
    /\ \E r \in budget : r.username = last.args[1] /\ r.category = last.args[2]
    /\ ~ \E r \in expenses : r.username = last.args[1] /\ r.category = last.args[2]

----------------------------------------------------------------------------
(* SpecLedger: expenses and budgets of two owners *)

NextLedger ==
    \/ signup_user("alice", "a")
    \/ delete_category_count_expenses("c1", "alice", Food)
    \/ delete_category_count_budget("c1")
    \/ delete_category_delete("c1")
    \/ \E u \in Usernames : seq < MaxSeqLedger /\ add_expense(u, Day1, Food, 50, Memo)
    \/ \E i \in 1..MaxSeqLedger : delete_expense(i)
    \/ \E l \in {50, 100} : set_budget("alice", Food, l)
    \/ set_budget("bob", Food, 100)

SpecLedger == Init /\ [][NextLedger]_vars

\* C4: add_expense(owner, ...) adds one row, which get_expenses(owner) returns, and
\* its id differs from the id of every other expense row of any owner.
C4_AddExpenseFreshId ==
    [][last'.op = "add_expense" =>
          LET owner == last'.args[1]
              listed == {[id |-> r.id, date |-> r.date, category |-> r.category,
                          amount |-> r.amount, description |-> r.description] :
                            r \in {x \in expenses' : x.username = owner}}
          IN \E n \in expenses' :
                /\ n.username = owner
                /\ n.date = last'.args[2]
                /\ n.category = last'.args[3]
                /\ n.amount = last'.args[4]
                /\ n.description = strip(last'.args[5])
                /\ [id |-> n.id, date |-> n.date, category |-> n.category,
                    amount |-> n.amount, description |-> n.description] \in listed
                /\ expenses' \ {n} = expenses
                /\ \A r \in expenses' \ {n} : r.id # n.id]_vars

\* An expense added after an earlier row was deleted, with rows of both owners present.
C4_Witness ==
    /\ last.op = "add_expense"
    /\ seq > Cardinality(expenses)
    /\ \A u \in Usernames : \E r \in expenses : r.username = u

\* C6: the budget table holds at most one row per (owner, category); set_budget
\* leaves that row with the limit passed and every other row as it was; no other
\* operation writes the table.
C6_SetBudgetUpsert ==
    [][/\ last'.op = "set_budget" =>
            LET u == last'.args[1]
                c == last'.args[2]
                mine(r) == r.username = u /\ r.category = c
            IN /\ {r \in budget' : mine(r)} =
                    {[username |-> u, category |-> c, monthly_limit |-> last'.args[3]]}
               /\ {r \in budget' : ~mine(r)} = {r \in budget : ~mine(r)}
       /\ last'.op # "set_budget" => budget' = budget
       /\ \A r1, r2 \in budget' :
            (r1.username = r2.username /\ r1.category = r2.category) => r1 = r2]_vars

\* A budget set for one owner while the other owner has a row.
C6_Witness ==
    /\ last = Call("set_budget", <<"alice", Food, 50>>, None)
    /\ [username |-> "alice", category |-> Food, monthly_limit |-> 50] \in budget
    /\ [username |-> "bob", category |-> Food, monthly_limit |-> 100] \in budget

----------------------------------------------------------------------------
(* SpecPick: a session that adds expenses and saves budgets from the category
   list its run read, while a thread is inside delete_category *)

PickCats == {Food, <<78>>}
PickNow == <<2024, 3, 15>>

NextPick ==
    \/ signup_user("alice", "a")
    \/ add_category("alice", NewCat)
    \/ \E c \in PickCats : delete_category_count_expenses("c1", "alice", c)
    \/ delete_category_count_budget("c1")
    \/ delete_category_delete("c1")
    \/ user_exists("alice") /\ script_get_categories("s1", "alice", PickNow)
    \/ script_get_expenses("s1")
    \/ script_dashboard("s1")
    \/ \E c \in PickCats \cup {NoCategories} :
          seq < MaxSeqPick /\ PressAdd("s1", Day1, c, 50, Memo)
    \/ \E c \in PickCats : PressSaveBudget("s1", c, 100)
    \/ script_get_budget("s1")
    \/ ReportsTab("s1")
    \/ \E i \in 1..MaxSeqPick : PressDelete("s1", i)
    \/ script_end("s1")

SpecPick == Init /\ [][NextPick]_vars

\* Every expense row and every budget row names a (username, category) pair that
\* is in the categories table.
RowsNameExistingCategory ==
    /\ \A r \in expenses : CatRow(r.username, r.category) \in categories
    /\ \A r \in budget : CatRow(r.username, r.category) \in categories

\* The step is the add_expense or the set_budget of a caller that passes a
\* category of the owner's list as it is at the call.
FromCurrentList ==
    /\ last'.op = "press_add" =>
          last'.args[3] \in get_categories(run[last'.args[1]].username)
    /\ last'.op = "press_save_budget" =>
          last'.args[2] \in get_categories(run[last'.args[1]].username)
    /\ last'.op = "add_expense" => last'.args[3] \in get_categories(last'.args[1])
    /\ last'.op = "set_budget" => last'.args[2] \in get_categories(last'.args[1])

\* C10: when the operations run one at a time (no write between the statements of
\* a delete_category call) and add_expense and set_budget get a category of the
\* owner's current list, every expense row and every budget row names a pair of
\* the categories table: this holds of the empty store, and every such operation
\* keeps it.
C10_RowsNameExistingCategory ==
    /\ RowsNameExistingCategory
    /\ [][(RowsNameExistingCategory /\ DeleteRanAlone /\ FromCurrentList) =>
             RowsNameExistingCategory']_vars

\* An undisturbed delete_category removed Food while the owner has an expense and
\* a budget in another category, and every row still names a listed category.
C10_Witness ==
    /\ last.op = "delete_category"
    /\ del_call["c1"].pc = "closed" /\ del_call["c1"].alone
    /\ user_exists("alice")
    /\ CatRow("alice", Food) \notin categories
    /\ \E r \in expenses : r.username = "alice"
    /\ \E r \in budget : r.username = "alice"
    /\ RowsNameExistingCategory

----------------------------------------------------------------------------
(* SpecDash: a script run reading the store while expenses are added and deleted
   and budgets are set *)

Day2 == <<2024, 3, 2>>
DayLastYear == <<2023, 3, 1>>
Nows == {<<2024, 3, 15>>, <<2024, 4, 2>>}

ExpenseInputs ==
    {<<"alice", Day1, Food, 40>>, <<"alice", Day1, Food, 50>>,
     <<"alice", Day2, Food, 40>>, <<"alice", DayLastYear, Food, 50>>,
     <<"alice", Day1, Other, 50>>, <<"bob", Day1, Food, 50>>}

BudgetInputs ==
    {<<"alice", Food, 0>>, <<"alice", Food, 100>>, <<"alice", Other, -100>>,
     <<"alice", Other, 40>>, <<"bob", Food, 100>>}

NextDash ==
    \/ \E e \in ExpenseInputs :
          seq < MaxSeqDash /\ add_expense(e[1], e[2], e[3], e[4], Empty)
    \/ \E b \in BudgetInputs : set_budget(b[1], b[2], b[3])
    \/ \E now \in Nows : script_get_categories("s1", "alice", now)
    \/ script_get_expenses("s1")
    \/ script_dashboard("s1")
    \/ script_get_budget("s1")
    \/ ReportsTab("s1")
    \/ script_end("s1")
    \/ delete_expense(1)

SpecDash == Init /\ [][NextDash]_vars

\* The rows of the expenses frame whose YYYY-MM is that of the reference date.
InMonth(exp_df, now) ==
    {r \in exp_df : r.date[1] = now[1] /\ r.date[2] = now[2]}

\* The alerts are those of the claim for the budget rows bud_df and the expense
\* rows exp_df: none when monthly_limit <= 0; otherwise over-budget iff
\* spent/limit > 1, near-limit iff 0.8 < spent/limit <= 1, none iff
\* spent/limit <= 0.8, with spent the sum of the amounts of the month in the
\* row's category.
AlertsClassify(alerts, bud_df, exp_df, now) ==
    \A b \in bud_df :
        LET spent == amount_sum({r \in InMonth(exp_df, now) : r.category = b.category})
            limit == b.monthly_limit
            over == [category |-> b.category, kind |-> "over"] \in alerts
            near == [category |-> b.category, kind |-> "near"] \in alerts
        IN IF limit <= 0
           THEN ~over /\ ~near
           ELSE /\ over <=> spent > limit
                /\ near <=> (5 * spent > 4 * limit /\ spent <= limit)
                /\ (~over /\ ~near) <=> 5 * spent <= 4 * limit

\* avg is the sum of the amounts of the month over the number of distinct dates
\* among the rows of the month, and 0 when no row is of the month.
AverageOfMonth(avg, exp_df, now) ==
    LET rows == InMonth(exp_df, now)
    IN /\ avg.den > 0
       /\ IF rows = {}
          THEN avg.num = 0
          ELSE avg.num * Cardinality({r.date : r \in rows}) = amount_sum(rows) * avg.den

\* C7 as stated: the alerts of a rendered dashboard classify every budget row of
\* the user by the user's expenses of the current month in the store.
C7_BudgetAlerts ==
    last.op = "from_finance_app" =>
        AlertsClassify(last.ret.page.alerts, get_budget(last.args[1]),
                       get_expenses(last.args[1]), last.args[2])

\* C7 amended: the alerts classify every budget row of the user by the expenses
\* the run read with get_expenses at its start; they classify by the user's
\* expenses in the store whenever no expense write has changed them since.
C7_BudgetAlertsOfRead ==
    last.op = "from_finance_app" =>
        /\ last.ret.bud_df = get_budget(last.args[1])
        /\ AlertsClassify(last.ret.page.alerts, last.ret.bud_df, last.ret.exp_df,
                          last.args[2])
        /\ last.ret.exp_df = get_expenses(last.args[1]) =>
              AlertsClassify(last.ret.page.alerts, get_budget(last.args[1]),
                             get_expenses(last.args[1]), last.args[2])

\* A dashboard with an over-budget alert for one row and none for a row whose
\* limit is not positive although money was spent in its category, rendered
\* from expenses of which one has been deleted since the run read them.
C7_Witness ==
    /\ last.op = "from_finance_app"
    /\ last.ret.page.shown
    /\ \E a \in last.ret.page.alerts : a.kind = "over"
    /\ \E b \in last.ret.bud_df :
          /\ b.monthly_limit <= 0
          /\ \E r \in InMonth(last.ret.exp_df, last.args[2]) : r.category = b.category
    /\ \E r \in last.ret.exp_df : r \notin get_expenses(last.args[1])

\* C8 as stated: a rendered dashboard shows a daily average, which is the sum of
\* the user's amounts of the reference month in the store over the number of
\* distinct dates among those expenses, and 0 when the month has no expense.
C8_DailyAverage ==
    last.op = "from_finance_app" =>
        /\ last.ret.page.shown
        /\ AverageOfMonth(last.ret.page.daily_avg, get_expenses(last.args[1]),
                          last.args[2])

\* C8 amended: the dashboard shows a daily average exactly when the expenses the
\* run read are not empty; it is then the sum of the amounts of the reference
\* month among those expenses over the number of distinct dates among them, and
\* 0 when none is of that month; it is that of the user's expenses in the store
\* whenever no expense write has changed them since the read.
C8_DailyAverageOfRead ==
    last.op = "from_finance_app" =>
        /\ last.ret.page.shown <=> last.ret.exp_df # {}
        /\ last.ret.page.shown =>
              /\ AverageOfMonth(last.ret.page.daily_avg, last.ret.exp_df, last.args[2])
              /\ last.ret.exp_df = get_expenses(last.args[1]) =>
                    AverageOfMonth(last.ret.page.daily_avg,
                                   get_expenses(last.args[1]), last.args[2])

\* Two expenses on one day of the month in the frame the run read.
C8_Witness ==
    /\ last.op = "from_finance_app"
    /\ last.ret.page.shown
    /\ Cardinality(InMonth(last.ret.exp_df, last.args[2])) = 2
    /\ Cardinality({r.date : r \in InMonth(last.ret.exp_df, last.args[2])}) = 1
    /\ last.ret.page.daily_avg.den = 1

----------------------------------------------------------------------------
(* SpecSessions: browser sessions running main() against one store *)

SessionsNow == <<2024, 3, 15>>
SignupInputs == {<<"alice", "a">>, <<"bob", "a">>, <<"bob", "b">>, <<"", "a">>}
LoginInputs == {<<"alice", "a">>, <<"bob", "a">>}

NextSessions ==
    \/ \E s \in Sessions, c \in SignupInputs :
          CreateAccount_user_exists(s, c[1], c[2])
    \/ \E s \in Sessions : CreateAccount_signup_user(s)
    \/ \E s \in Sessions, c \in LoginInputs : Login(s, c[1], c[2])
    \/ \E s \in Sessions : Logout(s)
    \/ \E s \in Sessions :
          auth_user[s] # None /\ script_get_categories(s, auth_user[s], SessionsNow)
    \/ \E s \in Sessions : script_get_expenses(s)
    \/ \E s \in Sessions : script_dashboard(s)
    \/ \E s \in Sessions : seq < MaxSeqSessions /\ PressAdd(s, Day1, Food, 50, Empty)
    \/ \E s \in Sessions : PressSaveBudget(s, Food, 100)
    \/ \E s \in Sessions : script_get_budget(s)
    \/ \E s \in Sessions : ReportsTab(s)
    \/ \E s \in Sessions, i \in 1..MaxSeqSessions : PressDelete(s, i)
    \/ \E s \in Sessions : script_end(s)

SpecSessions == Init /\ [][NextSessions]_vars

\* C9: the Delete button of a session logged in as A removes only an expense row
\* whose username is A, or no row, however the sessions interleave.
C9_DeleteOnlyOwnRows ==
    [][last'.op = "press_delete" =>
          \A r \in expenses \ expenses' : r.username = auth_user[last'.args[1]]]_vars

\* A Delete pressed by one user's session while the session of another user is
\* logged in and that user's row is in the store.
C9_Witness ==
    /\ last.op = "press_delete"
    /\ seq = 2
    /\ Cardinality(expenses) = 1
    /\ \E r \in expenses : r.username # auth_user[last.args[1]]
    /\ \E s \in Sessions : auth_user[s] \notin {None, auth_user[last.args[1]]}
    /\ last.args[2] \in options[last.args[1]]

====
